---- MODULE Spec2Model ----
(***************************************************************************)
(* evalb-lcfrs: evaluation of discontinuous bracketings.                   *)
(*                                                                         *)
(* Two specifications over one set of variables:                           *)
(*   SpecRead  - read_from_export on one collected sentence: the recursion *)
(*               of export_process_sentence as an explicit call stack,     *)
(*               then the construction of the sentence's signature.        *)
(*   SpecEval  - evaluate on a key file and an answer file: both files are *)
(*               read (the same reader, run to completion), the sentence   *)
(*               loop runs one gold sentence per step, then the summary.   *)
(***************************************************************************)
EXTENDS Integers, Sequences, FiniteSets, TLC

VARIABLES sentence, param, delete_pos, labels_by_nodenum, proc, signature,
          rpc, keyfile, answerfile, extra, ev

vars == <<sentence, param, delete_pos, labels_by_nodenum, proc, signature,
          rpc, keyfile, answerfile, extra, ev>>

readVars == <<sentence, delete_pos, labels_by_nodenum, proc, signature, rpc>>

evalVars == <<keyfile, answerfile, extra, ev>>

(***************************************************************************)
(* Bounds                                                                  *)
(***************************************************************************)
\* longest sentence (number of record lines) given to the reader in SpecRead
MaxRecs == 3

\* depth of nested export_process_sentence calls at which the interpreter
\* gives up (RecursionError); above the longest chain of distinct node ids
RecursionLimit == 4

\* gold and test sentence numbers are drawn from 1..MaxSentNum in SpecEval
MaxSentNum == 2

(***************************************************************************)
(* Export format records.  A line is a terminal (word, tag, parent) or a   *)
(* non-terminal (#num, label, parent); only the fields the program reads   *)
(* after export_split are kept.                                            *)
(***************************************************************************)
T(tag, parent) == [nt |-> FALSE, num |-> 0, tag |-> tag, parent |-> parent]

N(num, label, parent) == [nt |-> TRUE, num |-> num, tag |-> label, parent |-> parent]

\* node numbers export_split lets through: 0 or 500..999 (two of the latter)
NodeNums == {0, 500, 501}

Records ==
    {T(t, p) : t \in {"NN", "$."}, p \in NodeNums}
    \cup {N(500, "NP", p) : p \in NodeNums}
    \cup {N(501, l, p) : l \in {"NP", "VP"}, p \in {0, 500}}
    \cup {N(0, "NP", p) : p \in {0, 500}}

SeqsUpTo(S, n) == UNION {[1..k -> S] : k \in 0..n}

ParamSet ==
    {[LABELED |-> l, CUTOFF_LEN |-> 9999, DELETE_LABEL |-> d[1],
      DELETE_LABEL_FOR_LENGTH |-> d[2]] :
        l \in {0, 1},
        d \in {<<{}, {}>>, <<{"$."}, {}>>, <<{"$.", "VROOT"}, {"$."}>>}}
    \cup {[LABELED |-> 1, CUTOFF_LEN |-> 2, DELETE_LABEL |-> {},
           DELETE_LABEL_FOR_LENGTH |-> {}]}

ParamGet(p, key) ==
    IF key = "DELETE_LABEL" THEN p.DELETE_LABEL ELSE p.DELETE_LABEL_FOR_LENGTH

(***************************************************************************)
(* Counter (multiset): a function from its elements to positive counts.    *)
(***************************************************************************)
EmptyBag == [b \in {} |-> 0]

CountOf(bag, b) == IF b \in DOMAIN bag THEN bag[b] ELSE 0

\* bag[b] += 1
BagIncr(bag, b) ==
    [x \in DOMAIN bag \cup {b} |-> IF x = b THEN CountOf(bag, b) + 1 ELSE bag[x]]

RECURSIVE SumOver(_, _)
SumOver(f, S) ==
    IF S = {} THEN 0
    ELSE LET x == CHOOSE y \in S : TRUE IN f[x] + SumOver(f, S \ {x})

\* sum(counter.values())
BagSize(bag) == SumOver(bag, DOMAIN bag)

Min(a, b) == IF a < b THEN a ELSE b

Bracketing(label, terminals) == [label |-> label, terminals |-> terminals]

(***************************************************************************)
(* export_process_sentence                                                 *)
(***************************************************************************)
\* {int(fields[NODE][1:]): fields[TAG] ...}: the last declaration of a node
\* number wins; node 0 is VROOT whatever the sentence declares
LabelsByNodenum(sent) ==
    [n \in {sent[i].num : i \in {j \in 1..Len(sent) : sent[j].nt}} \cup {0} |->
        IF n = 0 THEN "VROOT"
        ELSE LET last == CHOOSE i \in 1..Len(sent) :
                            /\ sent[i].nt /\ sent[i].num = n
                            /\ \A j \in (i+1)..Len(sent) :
                                  ~(sent[j].nt /\ sent[j].num = n)
             IN sent[last].tag]

ProcIdle ==
    [stack |-> <<>>, tuples_by_nodenum |-> [n \in {} |-> 0],
     pos_tags |-> {}, calls |-> [n \in NodeNums |-> 0], status |-> "idle"]

\* entry of a call: the node's tuple is (re)set to (label, set())
EnterCall(p, labels, nodenum) ==
    [p EXCEPT
        !.stack = Append(@, [nodenum |-> nodenum, linenum |-> 1]),
        !.tuples_by_nodenum =
            [n \in DOMAIN @ \cup {nodenum} |->
                IF n = nodenum THEN [label |-> labels[nodenum], terminals |-> {}]
                ELSE @[n]],
        !.calls = [@ EXCEPT ![nodenum] = @ + 1],
        !.status = "running"]

\* next line at or after linenum whose parent is nodenum (0: none left)
NextChild(sent, nodenum, linenum) ==
    LET C == {j \in linenum..Len(sent) : sent[j].parent = nodenum}
    IN IF C = {} THEN 0 ELSE CHOOSE j \in C : \A k \in C : j <= k

\* the recursion's base case: the terminal on line j (1-based) of the scan
AddTerminal(p, sent, prm, dpos, nodenum, j) ==
    [p EXCEPT
        !.tuples_by_nodenum[nodenum].terminals =
            IF sent[j].tag \notin prm.DELETE_LABEL THEN @ \cup {j} ELSE @,
        !.pos_tags =
            IF sent[j].tag \notin ParamGet(prm, dpos)
            THEN @ \cup {<<j - 1, sent[j].tag>>} ELSE @,
        !.stack[Len(p.stack)].linenum = j + 1]

\* the innermost call has scanned every line: return to the caller, which
\* adds the child's terminals to its own
ReturnCall(p) ==
    LET d == Len(p.stack)
        child == p.stack[d].nodenum
    IN IF d = 1
       THEN [p EXCEPT !.stack = <<>>, !.status = "returned"]
       ELSE LET caller == p.stack[d - 1].nodenum
            IN [p EXCEPT
                   !.stack = SubSeq(@, 1, d - 1),
                   !.tuples_by_nodenum[caller].terminals =
                       @ \cup p.tuples_by_nodenum[child].terminals]

\* one step of the innermost active call
ProcStep(p, sent, labels, prm, dpos) ==
    LET d == Len(p.stack)
        top == p.stack[d]
        j == NextChild(sent, top.nodenum, top.linenum)
    IN IF j = 0 THEN ReturnCall(p)
       ELSE IF sent[j].nt
       THEN IF d >= RecursionLimit
            THEN [p EXCEPT !.status = "RecursionError"]
            ELSE EnterCall([p EXCEPT !.stack[d].linenum = j + 1],
                           labels, sent[j].num)
       ELSE AddTerminal(p, sent, prm, dpos, top.nodenum, j)

RECURSIVE ProcRun(_, _, _, _, _)
ProcRun(p, sent, labels, prm, dpos) ==
    IF p.status # "running" THEN p
    ELSE ProcRun(ProcStep(p, sent, labels, prm, dpos), sent, labels, prm, dpos)

\* export_process_sentence(sentence, ..., 0, param, delete_pos), to its end
export_process_sentence(sent, labels, prm, dpos) ==
    ProcRun(EnterCall(ProcIdle, labels, 0), sent, labels, prm, dpos)

(***************************************************************************)
(* read_from_export: the signature of one sentence                         *)
(***************************************************************************)
\* variant: the emptiness test on the terminal set is left out
KeepBracketing_NoEmptyCheck(prm, label, terminals) ==
    label \notin prm.DELETE_LABEL

\* only add non-deleted, non-empty bracketings
KeepBracketing(prm, label, terminals) ==
    label \notin prm.DELETE_LABEL /\ terminals # {}

OutLabel(prm, label) == IF prm.LABELED = 1 THEN label ELSE "X"

RECURSIVE SignatureLoop(_, _, _, _)
SignatureLoop(sig, tuples, todo, prm) ==
    IF todo = {} THEN sig
    ELSE LET nodenum == CHOOSE n \in todo : \A m \in todo : n <= m
             label == tuples[nodenum].label
             terminals == tuples[nodenum].terminals
             sig2 == IF KeepBracketing(prm, label, terminals)
                     THEN BagIncr(sig, Bracketing(OutLabel(prm, label), terminals))
                     ELSE sig
         IN SignatureLoop(sig2, tuples, todo \ {nodenum}, prm)

SentenceSignature(tuples, prm) ==
    SignatureLoop(EmptyBag, tuples, DOMAIN tuples, prm)

\* read_from_export on a file (sentence number -> record lines): every
\* sentence is processed from the root and its signature built; an exception
\* in a sentence leaves the function
read_from_export(file, prm, dpos) ==
    LET run == [s \in DOMAIN file |->
                   export_process_sentence(file[s], LabelsByNodenum(file[s]),
                                           prm, dpos)]
    IN IF \E s \in DOMAIN file : run[s].status # "returned"
       THEN [status |-> "RecursionError",
             signatures |-> [s \in {} |-> EmptyBag],
             pos_tags |-> [s \in {} |-> {}]]
       ELSE [status |-> "ok",
             signatures |-> [s \in DOMAIN file |->
                                SentenceSignature(run[s].tuples_by_nodenum, prm)],
             pos_tags |-> [s \in DOMAIN file |-> run[s].pos_tags]]

(***************************************************************************)
(* Ratios.  The program divides floats; the model keeps the exact quotient *)
(* as a reduced fraction <<numerator, denominator>>.                       *)
(***************************************************************************)
RECURSIVE GCD(_, _)
GCD(a, b) == IF b = 0 THEN a ELSE GCD(b, a % b)

Rat(n, d) == IF n = 0 THEN <<0, 1>> ELSE <<n \div GCD(n, d), d \div GCD(n, d)>>

RatZero == <<0, 1>>

RatHundred == <<100, 1>>

RatAdd(p, q) == Rat(p[1] * q[2] + q[1] * p[2], p[2] * q[2])

RatMul(p, q) == Rat(p[1] * q[1], p[2] * q[2])

RatDiv(p, q) == Rat(p[1] * q[2], p[2] * q[1])

\* 100 * a / b
Percent(a, b) == Rat(100 * a, b)

\* variant: the factor 2 of the harmonic mean is left out
FB1_NoFactor(prec, rec) ==
    IF RatAdd(prec, rec)[1] > 0
    THEN RatDiv(RatMul(prec, rec), RatAdd(prec, rec))
    ELSE RatZero

\* 2 * prec * rec / (prec + rec), 0.0 unless prec + rec > 0
FB1(prec, rec) ==
    IF RatAdd(prec, rec)[1] > 0
    THEN RatDiv(RatMul(<<2, 1>>, RatMul(prec, rec)), RatAdd(prec, rec))
    ELSE RatZero

(***************************************************************************)
(* evaluate                                                                *)
(***************************************************************************)
\* variant: a common bracketing counts once, whatever its multiplicities
BagIntersect_Once(a, b) ==
    [x \in DOMAIN a \cap DOMAIN b |-> 1]

\* Counter.__and__: the elements of a that b holds too, each with the
\* smaller of its two counts
BagIntersect(a, b) ==
    [x \in {y \in DOMAIN a : CountOf(b, y) > 0} |->
        IF a[x] < CountOf(b, x) THEN a[x] ELSE CountOf(b, x)]

RECURSIVE SortedSeq(_)
SortedSeq(S) ==
    IF S = {} THEN <<>>
    ELSE LET m == CHOOSE x \in S : \A y \in S : x <= y
         IN <<m>> \o SortedSeq(S \ {m})

EvalNew ==
    [pc |-> "start", error |-> "none", header |-> FALSE, summary |-> FALSE,
     key_sig |-> [s \in {} |-> EmptyBag], key_tags |-> [s \in {} |-> {}],
     answer_sig |-> [s \in {} |-> EmptyBag], answer_tags |-> [s \in {} |-> {}],
     todo |-> <<>>, rows |-> [s \in {} |-> 0],
     missing |-> 0, total_match |-> 0, total_key |-> 0, total_answer |-> 0,
     total_exact |-> 0, total_words |-> 0, total_matched_pos |-> 0,
     total_sents |-> 0,
     prec |-> RatZero, rec |-> RatZero, fb1 |-> RatZero,
     pos |-> RatZero, ex |-> RatZero]

Raise(e, err) == [e EXCEPT !.pc = "error", !.error = err]

\* variant: the sentence loop runs over the sentence numbers of both files
EvalStart_LoopOverBoth(e, kf, af, prm) ==
    LET k == read_from_export(kf, prm, "DELETE_LABEL_FOR_LENGTH")
        a == read_from_export(af, prm, "DELETE_LABEL")
        e1 == [e EXCEPT !.key_sig = k.signatures, !.key_tags = k.pos_tags,
                        !.answer_sig = a.signatures, !.answer_tags = a.pos_tags]
    IN IF k.status # "ok" \/ a.status # "ok" THEN Raise(e, "RecursionError")
       ELSE IF DOMAIN k.signatures = {}
       THEN Raise(e1, "ValueError: no sentences in key")
       ELSE IF Cardinality(DOMAIN a.signatures) > Cardinality(DOMAIN k.signatures)
       THEN Raise(e1, "ValueError: more sentences in answer than key")
       ELSE [e1 EXCEPT !.pc = "loop", !.header = TRUE,
                       !.todo = SortedSeq(DOMAIN k.signatures
                                            \cup DOMAIN a.signatures)]

\* lines 221-234: both files are read, the two sentence-count checks, the
\* table header
EvalStart(e, kf, af, prm) ==
    LET k == read_from_export(kf, prm, "DELETE_LABEL_FOR_LENGTH")
        a == read_from_export(af, prm, "DELETE_LABEL")
        e1 == [e EXCEPT !.key_sig = k.signatures, !.key_tags = k.pos_tags,
                        !.answer_sig = a.signatures, !.answer_tags = a.pos_tags]
    IN IF k.status # "ok" \/ a.status # "ok" THEN Raise(e, "RecursionError")
       ELSE IF DOMAIN k.signatures = {}
       THEN Raise(e1, "ValueError: no sentences in key")
       ELSE IF Cardinality(DOMAIN a.signatures) > Cardinality(DOMAIN k.signatures)
       THEN Raise(e1, "ValueError: more sentences in answer than key")
       ELSE [e1 EXCEPT !.pc = "loop", !.header = TRUE,
                       !.todo = SortedSeq(DOMAIN k.signatures)]

\* one pass of the loop over sorted(key_sig), lines 247-288
EvalSentence(e, prm) ==
    LET sent_num == Head(e.todo)
        rest == [e EXCEPT !.todo = Tail(@)]
    IN IF sent_num \notin DOMAIN e.key_tags THEN Raise(rest, "KeyError")
       ELSE IF Cardinality(e.key_tags[sent_num]) > prm.CUTOFF_LEN THEN rest
       ELSE IF sent_num \notin DOMAIN e.key_sig
       THEN Raise([rest EXCEPT !.total_sents = @ + 1], "ValueError: no data in key")
       ELSE
       LET key_sent_sig == e.key_sig[sent_num]
           present == sent_num \in DOMAIN e.answer_sig
           answer_sent_sig == IF present THEN e.answer_sig[sent_num] ELSE EmptyBag
           sent_match == BagSize(BagIntersect(key_sent_sig, answer_sent_sig))
           exact == key_sent_sig = answer_sent_sig
           sent_answer == BagSize(answer_sent_sig)
           sent_prec == IF Cardinality(DOMAIN answer_sent_sig) > 0
                        THEN Percent(sent_match, sent_answer) ELSE RatZero
           sent_key == BagSize(key_sent_sig)
           sent_rec == IF Cardinality(DOMAIN key_sent_sig) > 0
                       THEN Percent(sent_match, sent_key) ELSE RatZero
           sent_fb1 == FB1(sent_prec, sent_rec)
           e1 == [rest EXCEPT !.total_sents = @ + 1,
                              !.missing = IF present THEN @ ELSE @ + 1,
                              !.total_exact = IF exact THEN @ + 1 ELSE @]
       IN IF sent_num \notin DOMAIN e.answer_tags THEN Raise(e1, "KeyError")
          ELSE
          LET tag_match == Cardinality(e.key_tags[sent_num]
                                          \cap e.answer_tags[sent_num])
              row == [sent_prec |-> sent_prec, sent_rec |-> sent_rec,
                      sent_fb1 |-> sent_fb1, sent_match |-> sent_match,
                      sent_key |-> sent_key, sent_answer |-> sent_answer,
                      words |-> Cardinality(e.answer_tags[sent_num]),
                      tag_match |-> tag_match, exact |-> exact]
          IN [e1 EXCEPT
                 !.rows = [s \in DOMAIN @ \cup {sent_num} |->
                              IF s = sent_num THEN row ELSE @[s]],
                 !.total_match = @ + sent_match,
                 !.total_key = @ + sent_key,
                 !.total_answer = @ + sent_answer,
                 !.total_matched_pos = @ + tag_match,
                 !.total_words = @ + Cardinality(e.key_tags[sent_num])]

\* lines 290-318: the aggregate ratios and the summary block
EvalSummary(e) ==
    LET prec == IF e.total_answer > 0
                THEN Percent(e.total_match, e.total_answer) ELSE RatZero
        rec == IF e.total_key > 0
               THEN Percent(e.total_match, e.total_key) ELSE RatZero
        e1 == [e EXCEPT !.prec = prec, !.rec = rec, !.fb1 = FB1(prec, rec),
                        !.summary = TRUE]
    IN IF e.total_words = 0 THEN Raise(e1, "ZeroDivisionError")
       ELSE LET e2 == [e1 EXCEPT !.pos = Percent(e.total_matched_pos,
                                                 e.total_words)]
            IN IF e.total_sents = 0 THEN Raise(e2, "ZeroDivisionError")
               ELSE [e2 EXCEPT !.ex = Percent(e.total_exact, e.total_sents),
                               !.pc = "done"]

EvalStep(e, kf, af, prm) ==
    IF e.pc = "start" THEN EvalStart(e, kf, af, prm)
    ELSE IF e.pc = "loop" /\ e.todo # <<>> THEN EvalSentence(e, prm)
    ELSE IF e.pc = "loop" THEN EvalSummary(e)
    ELSE e

RECURSIVE EvalRun(_, _, _, _)
EvalRun(e, kf, af, prm) ==
    IF e.pc \in {"done", "error"} THEN e
    ELSE EvalRun(EvalStep(e, kf, af, prm), kf, af, prm)

\* evaluate(key, answer, param, encoding), to its end
evaluate(kf, af, prm) == EvalRun(EvalNew, kf, af, prm)

(***************************************************************************)
(* SpecRead                                                                *)
(***************************************************************************)
EvIdle == [pc |-> "idle"]

InitRead ==
    /\ sentence \in SeqsUpTo(Records, MaxRecs)
    /\ param \in {p \in ParamSet : p.CUTOFF_LEN = 9999}
    /\ delete_pos \in {"DELETE_LABEL", "DELETE_LABEL_FOR_LENGTH"}
    /\ labels_by_nodenum = [n \in {} |-> ""]
    /\ proc = ProcIdle
    /\ signature = EmptyBag
    /\ rpc = "collected"
    /\ keyfile = <<>> /\ answerfile = <<>> /\ extra = <<>> /\ ev = EvIdle

\* the #EOS line was read: labels are extracted and the root call is made
BeginSentence ==
    /\ rpc = "collected"
    /\ labels_by_nodenum' = LabelsByNodenum(sentence)
    /\ proc' = EnterCall(ProcIdle, LabelsByNodenum(sentence), 0)
    /\ rpc' = "process"
    /\ UNCHANGED <<sentence, param, delete_pos, signature, evalVars>>

ProcessStep ==
    /\ rpc = "process"
    /\ proc.status = "running"
    /\ proc' = ProcStep(proc, sentence, labels_by_nodenum, param, delete_pos)
    /\ UNCHANGED <<sentence, param, delete_pos, labels_by_nodenum, signature,
                   rpc, evalVars>>

\* the loop over tuples_by_nodenum after the root call returned
BuildSignature ==
    /\ rpc = "process"
    /\ proc.status = "returned"
    /\ signature' = SentenceSignature(proc.tuples_by_nodenum, param)
    /\ rpc' = "done"
    /\ UNCHANGED <<sentence, param, delete_pos, labels_by_nodenum, proc, evalVars>>

\* the recursion limit was hit: the exception leaves read_from_export
AbortRead ==
    /\ rpc = "process"
    /\ proc.status = "RecursionError"
    /\ rpc' = "aborted"
    /\ UNCHANGED <<sentence, param, delete_pos, labels_by_nodenum, proc,
                   signature, evalVars>>

NextRead == BeginSentence \/ ProcessStep \/ BuildSignature \/ AbortRead

SpecRead == InitRead /\ [][NextRead]_vars

(***************************************************************************)
(* Properties of the reader (checked under SpecRead)                       *)
(***************************************************************************)
TerminalLines(sent) == {i \in 1..Len(sent) : ~sent[i].nt}

DeclaredNodes(sent) == {sent[i].num : i \in {j \in 1..Len(sent) : sent[j].nt}}

NonDeletedTerminals(sent, prm) ==
    {i \in TerminalLines(sent) : sent[i].tag \notin prm.DELETE_LABEL}

\* some line names a nonzero parent that no line of the sentence declares
HasDanglingParent(sent) ==
    \E i \in 1..Len(sent) :
        sent[i].parent # 0 /\ sent[i].parent \notin DeclaredNodes(sent)

\* every declared node number is declared by one line only
UniqueDeclarations(sent) ==
    \A i, j \in 1..Len(sent) :
        (sent[i].nt /\ sent[j].nt /\ sent[i].num = sent[j].num) => i = j

RECURSIVE ReachFrom(_, _)
ReachFrom(sent, R) ==
    LET R2 == R \cup {sent[i].num :
                         i \in {j \in 1..Len(sent) :
                                  sent[j].nt /\ sent[j].parent \in R}}
    IN IF R2 = R THEN R ELSE ReachFrom(sent, R2)

\* node numbers reachable from the root through parent pointers
ReachableNodes(sent) == ReachFrom(sent, {0})

\* C4 (as claimed): once the root call has returned, the terminal set stored
\* for node 0 is the set of positions of all terminals of the sentence whose
\* tag is not in DELETE_LABEL, whatever parent ids the records carry.
C4_RootYieldCoversTerminals ==
    proc.status = "returned" =>
        proc.tuples_by_nodenum[0].terminals = NonDeletedTerminals(sentence, param)

\* C5 (as claimed): a sentence with a record whose parent id is nonzero and
\* not declared in the sentence never gets through yield extraction: the
\* root call does not return and no signature is built for it.
C5_DanglingParentAborts ==
    HasDanglingParent(sentence) => (proc.status # "returned" /\ rpc # "done")

\* C10 (as claimed): when every node number is declared by at most one
\* record, the recursion from node 0 ends without exhausting the call stack,
\* no node is processed twice, and at the return of the root call every node
\* reachable from node 0 has been processed exactly once.
C10_RecursionTerminatesOncePerNode ==
    UniqueDeclarations(sentence) =>
        /\ proc.status # "RecursionError"
        /\ \A n \in NodeNums : proc.calls[n] <= 1
        /\ proc.status = "returned" =>
               \A n \in ReachableNodes(sentence) : proc.calls[n] = 1

\* bracketings a sentence of the model can give rise to
AllBracketings ==
    {Bracketing(l, t) : l \in {"VROOT", "NP", "VP", "X"},
                        t \in SUBSET (1..Len(sentence))}

\* node ids whose stored tuple gives rise to bracketing b
NodesFor(b) ==
    {n \in DOMAIN proc.tuples_by_nodenum :
        /\ proc.tuples_by_nodenum[n].terminals # {}
        /\ proc.tuples_by_nodenum[n].terminals = b.terminals
        /\ LabelsByNodenum(sentence)[n] \notin param.DELETE_LABEL
        /\ b.label = IF param.LABELED = 1 THEN LabelsByNodenum(sentence)[n]
                      ELSE "X"}

\* C8: the signature of a sentence holds, for every bracketing, as many
\* occurrences as there are node ids (root included) with that non-empty
\* terminal set and that label (the wildcard X in unlabeled mode) whose
\* original label is not in DELETE_LABEL; it holds nothing else, and no
\* bracketing with an empty terminal set.
C8_SignatureOnePerNode ==
    rpc = "done" =>
        /\ DOMAIN signature \subseteq AllBracketings
        /\ \A b \in AllBracketings :
               CountOf(signature, b) = Cardinality(NodesFor(b))
        /\ \A b \in DOMAIN signature : b.terminals # {} /\ signature[b] >= 1

\* C8 witness: labeled mode, a unary chain of two nodes with the same label
\* over the same terminals counted twice, next to the root bracketing
C8_Witness ==
    /\ rpc = "done" /\ param.LABELED = 1
    /\ \E b \in DOMAIN signature : signature[b] = 2 /\ b.label = "NP"
    /\ \E b \in DOMAIN signature : b.label = "VROOT"

(***************************************************************************)
(* SpecEval                                                                *)
(***************************************************************************)
\* sentences the key and answer files are made of
Pool ==
    { <<T("NN", 500), T("NN", 0), T("NN", 500), N(500, "VP", 0)>>,
      <<T("NN", 501), N(500, "NP", 0), N(501, "NP", 500)>>,
      <<T("$.", 0)>> }

\* a file: each sentence number of 1..MaxSentNum is absent or one sentence
Files == UNION {[D -> Pool] : D \in SUBSET (1..MaxSentNum)}

\* the answer file with one more sentence, numbered outside the key file
WithExtra(af, x) ==
    [s \in DOMAIN af \cup {MaxSentNum + 1} |->
        IF s = MaxSentNum + 1 THEN x ELSE af[s]]

InitEval ==
    /\ keyfile \in Files
    /\ answerfile \in Files
    /\ extra \in {<<T("NN", 501), N(500, "NP", 0), N(501, "NP", 500)>>,
                  <<T("$.", 0)>>}
    /\ param \in ParamSet
    /\ ev = EvalNew
    /\ sentence = <<>> /\ delete_pos = "DELETE_LABEL"
    /\ labels_by_nodenum = [n \in {} |-> ""]
    /\ proc = ProcIdle /\ signature = EmptyBag /\ rpc = "idle"

ReadFiles ==
    /\ ev.pc = "start"
    /\ ev' = EvalStart(ev, keyfile, answerfile, param)
    /\ UNCHANGED <<keyfile, answerfile, extra, param, readVars>>

ScoreSentence ==
    /\ ev.pc = "loop" /\ ev.todo # <<>>
    /\ ev' = EvalSentence(ev, param)
    /\ UNCHANGED <<keyfile, answerfile, extra, param, readVars>>

Summary ==
    /\ ev.pc = "loop" /\ ev.todo = <<>>
    /\ ev' = EvalSummary(ev)
    /\ UNCHANGED <<keyfile, answerfile, extra, param, readVars>>

NextEval == ReadFiles \/ ScoreSentence \/ Summary

SpecEval == InitEval /\ [][NextEval]_vars

(***************************************************************************)
(* Properties of evaluate (checked under SpecEval)                         *)
(***************************************************************************)
Final(e) == e.pc \in {"done", "error"}

Range(q) == {q[i] : i \in 1..Len(q)}

\* the loop has dealt with gold sentence s (scored, skipped or failed on it)
Processed(s) == ev.header /\ s \in DOMAIN ev.key_sig /\ s \notin Range(ev.todo)

AnswerSigOf(s) ==
    IF s \in DOMAIN ev.answer_sig THEN ev.answer_sig[s] ELSE EmptyBag

\* sum over the distinct bracketings of either side of the smaller count
SumOfMins(g, t) ==
    LET U == DOMAIN g \cup DOMAIN t
    IN SumOver([b \in U |-> Min(CountOf(g, b), CountOf(t, b))], U)

Discontinuous(terminals) ==
    \E i, j \in terminals : \E k \in (i+1)..(j-1) : k \notin terminals

\* C1: for every scored sentence the matched count is the sum, over the
\* distinct bracketings, of min(count in gold, count in test); intersecting
\* test with gold instead of gold with test gives the same count; and a
\* discontinuous bracketing held by both sides is in the intersection.
C1_MatchedIsMultisetIntersection ==
    \A s \in DOMAIN ev.rows :
        LET g == ev.key_sig[s]
            t == AnswerSigOf(s)
        IN /\ ev.rows[s].sent_match = SumOfMins(g, t)
           /\ ev.rows[s].sent_match = BagSize(BagIntersect(t, g))
           /\ \A b \in DOMAIN g \cap DOMAIN t :
                 Discontinuous(b.terminals) =>
                     CountOf(BagIntersect(g, t), b) >= 1

\* C1 witness: a finished run in which one scored sentence matched a
\* discontinuous bracketing and another holds a common bracketing more
\* often in gold than in test
C1_Witness ==
    /\ ev.pc = "done"
    /\ \E s \in DOMAIN ev.rows :
          \E b \in DOMAIN ev.key_sig[s] \cap DOMAIN AnswerSigOf(s) :
              Discontinuous(b.terminals) /\ ev.rows[s].sent_match >= 1
    /\ \E s \in DOMAIN ev.rows :
          \E b \in DOMAIN ev.key_sig[s] \cap DOMAIN AnswerSigOf(s) :
              ev.key_sig[s][b] > AnswerSigOf(s)[b]

\* C2 (as claimed): once the loop has dealt with a gold sentence that is
\* within the cutoff and absent from the test file, the run has not failed
\* on it: the sentence has a row with 0 matched, its full gold count and 0
\* test bracketings, and it is counted as missing.
C2_MissingSentenceScored ==
    \A s \in DOMAIN ev.key_sig :
        (/\ Processed(s)
         /\ Cardinality(ev.key_tags[s]) <= param.CUTOFF_LEN
         /\ s \notin DOMAIN answerfile)
        => /\ ev.error # "KeyError"
           /\ ev.missing >= 1
           /\ s \in DOMAIN ev.rows
           /\ ev.rows[s].sent_match = 0
           /\ ev.rows[s].sent_key = BagSize(ev.key_sig[s])
           /\ ev.rows[s].sent_answer = 0

\* C3 (as claimed): scoring a file against a copy of itself gives every
\* scored sentence precision = recall = F1 = 100 and an exact match, and
\* the summary precision = recall = F1 = 100 and exact-match rate 100.
C3_SelfScoreAllHundred ==
    keyfile = answerfile =>
        /\ \A s \in DOMAIN ev.rows :
              /\ ev.rows[s].exact
              /\ ev.rows[s].sent_prec = RatHundred
              /\ ev.rows[s].sent_rec = RatHundred
              /\ ev.rows[s].sent_fb1 = RatHundred
        /\ ev.summary =>
              ev.prec = RatHundred /\ ev.rec = RatHundred /\ ev.fb1 = RatHundred
        /\ ev.pc = "done" => ev.ex = RatHundred

\* C3 (amended): scoring a file against a copy of itself makes every scored
\* sentence an exact match; a scored sentence with a non-empty signature has
\* precision = recall = F1 = 100, one with an empty signature has all three
\* 0; the summary has precision = recall = F1 = 100 when some scored
\* sentence has a bracketing and 0 otherwise, and its exact-match rate is 100.
C3_SelfScoreHundredUnlessEmpty ==
    keyfile = answerfile =>
        /\ \A s \in DOMAIN ev.rows :
              LET v == IF ev.rows[s].sent_key > 0 THEN RatHundred ELSE RatZero
              IN /\ ev.rows[s].exact
                 /\ ev.rows[s].sent_key = BagSize(ev.key_sig[s])
                 /\ ev.rows[s].sent_prec = v
                 /\ ev.rows[s].sent_rec = v
                 /\ ev.rows[s].sent_fb1 = v
        /\ ev.total_exact = ev.total_sents
        /\ ev.summary =>
              LET v == IF ev.total_key > 0 THEN RatHundred ELSE RatZero
              IN ev.prec = v /\ ev.rec = v /\ ev.fb1 = v
        /\ ev.pc = "done" => ev.ex = RatHundred

\* C3 witness: a finished self-scoring run with a scored sentence that has
\* bracketings and a scored sentence whose signature is empty
C3_Witness ==
    /\ keyfile = answerfile /\ ev.pc = "done"
    /\ \E s \in DOMAIN ev.rows :
          ev.rows[s].sent_key > 0 /\ ev.rows[s].sent_fb1 = RatHundred
    /\ \E s \in DOMAIN ev.rows : ev.rows[s].sent_key = 0

\* C6 (as claimed): when no gold sentence is within the cutoff (or gold has
\* no sentence), the run stops with "no sentences in key" before the table
\* header is printed.
C6_NoGoldWithinCutoffAborts ==
    (/\ ev.pc # "start"
     /\ \A s \in DOMAIN ev.key_tags :
           Cardinality(ev.key_tags[s]) > param.CUTOFF_LEN)
    => (ev.error = "ValueError: no sentences in key" /\ ~ev.header)

\* lines of a sentence that are terminals with a tag outside DELETE_LABEL
NoTerminalsKept(file, s) ==
    s \in DOMAIN file /\ NonDeletedTerminals(file[s], param) = {}

\* C7 (as claimed): a scored sentence with zero non-deleted terminals in
\* gold adds 0 to the gold total, one with zero non-deleted terminals in
\* test adds 0 to the test total, and a run that scored such a sentence
\* does not stop on a division by zero.
C7_EmptySentenceNoDivisionError ==
    /\ \A s \in DOMAIN ev.rows :
          /\ NoTerminalsKept(keyfile, s) => ev.rows[s].sent_key = 0
          /\ NoTerminalsKept(answerfile, s) => ev.rows[s].sent_answer = 0
    /\ (\E s \in DOMAIN ev.rows :
           NoTerminalsKept(keyfile, s) \/ NoTerminalsKept(answerfile, s))
       => ev.error # "ZeroDivisionError"

\* what a run reports about matching and recall
RecallView(e) ==
    [pc |-> e.pc, error |-> e.error,
     rows |-> [s \in DOMAIN e.rows |->
                  <<e.rows[s].sent_match, e.rows[s].sent_key, e.rows[s].sent_rec>>],
     total_match |-> e.total_match, total_key |-> e.total_key, rec |-> e.rec]

\* the run on the same key file and the answer file with the extra sentence
RunWithExtra == evaluate(keyfile, WithExtra(answerfile, extra), param)

\* C9 (as claimed): when a run has reached the end of its summary, the run
\* on the answer file with one more sentence, whose number is not in gold,
\* reports the same per-sentence and aggregate matched counts, gold totals
\* and recall.
C9_ExtraTestSentenceNoEffect ==
    ev.pc = "done" =>
        LET x == RunWithExtra IN RecallView(x) = RecallView(ev)

\* C9 (amended): the two runs report the same matched counts, gold totals
\* and recall provided the answer file with the extra sentence has no more
\* sentences than the key file; when it has more (and the key file is not
\* empty) the run with the extra sentence stops with "more sentences in
\* answer than key" and scores nothing.
C9_ExtraTestSentenceNoEffectUnlessMore ==
    Final(ev) =>
        LET x == RunWithExtra
        IN IF DOMAIN keyfile = {}
               \/ Cardinality(DOMAIN answerfile) + 1 <= Cardinality(DOMAIN keyfile)
           THEN RecallView(x) = RecallView(ev)
           ELSE /\ x.error = "ValueError: more sentences in answer than key"
                /\ DOMAIN x.rows = {}

\* C9 witness: a run that scored a sentence and reached the end of the
\* summary, with room in the key file's sentence count for the extra sentence
C9_Witness ==
    /\ ev.pc = "done" /\ DOMAIN ev.rows # {}
    /\ Cardinality(DOMAIN answerfile) + 1 <= Cardinality(DOMAIN keyfile)

====
